---- MODULE Spec2Model ----
(***************************************************************************)
(* AI study-plan generation of the AI education assistant.                 *)
(*                                                                         *)
(* The page AIStudyPlanPage (frontend/src/pages/RegisterPage.tsx) submits  *)
(* a generation request through ApiService.generateAIStudyPlan             *)
(* (frontend/src/services/api.ts).  The backend workflow behind            *)
(* POST /study-plans/generate (validator, AI adapter, response parser,     *)
(* plan persister) writes to the tables of sql/init.sql.                   *)
(***************************************************************************)
EXTENDS Integers, Sequences, FiniteSets, TLC

(***************************************************************************)
(* Bounds of the model.                                                    *)
(***************************************************************************)
MaxRequests == 2      \* generation requests submitted in one behaviour
MaxWeeks == 2         \* weeks in one vendor response
MaxTasks == 1         \* tasks in one week of a vendor response

(***************************************************************************)
(* Values.                                                                 *)
(***************************************************************************)
Null == [kind |-> "null"]
Undefined == [kind |-> "undefined"]
NoValue == 0 - 1                  \* a cleared InputNumber / an absent field

PageUser == 1                     \* the user logged in on the page
ApiUser == 2                      \* a user calling the endpoint directly

Levels == {"beginner", "intermediate", "advanced"}
MinHours == 1
MaxHours == 80

\* InputNumber without min and max.
InputNumberNoRange(v) == v

\* <InputNumber min={1} max={80}/>: the value the field commits for a typed
\* number (a typed number outside the range is brought back into it).
InputNumber(v) ==
    IF v = NoValue THEN NoValue
    ELSE IF v < MinHours THEN MinHours
    ELSE IF v > MaxHours THEN MaxHours
    ELSE v

\* initialValues of the form
initialValues ==
    [subject |-> "", time_frame |-> "8w", current_level |-> "beginner",
     study_hours_per_week |-> 10, learning_goals |-> <<>>]

\* Numbers the user types into the hours field (NoValue: the field is cleared).
HoursTyped == {NoValue, 0, 81}

\* What the user can have in the form when the button is clicked: the initial
\* values, or the subject filled in and the hours typed over.
FormValues ==
    {initialValues}
    \cup {[initialValues EXCEPT !.subject = "Math",
                               !.study_hours_per_week = InputNumber(h)] :
            h \in HoursTyped}

\* JSON bodies another client of the endpoint can post.
ApiPayloads ==
    LET ok == [subject |-> "Math", time_frame |-> "8w",
               current_level |-> "intermediate", study_hours_per_week |-> 10,
               learning_goals |-> <<"algebra">>] IN
    {ok,
     [ok EXCEPT !.subject = ""],
     [ok EXCEPT !.current_level = "expert"],
     [ok EXCEPT !.study_hours_per_week = 0],
     [ok EXCEPT !.study_hours_per_week = 81]}

(***************************************************************************)
(* The vendor's answer and the response parser.                            *)
(***************************************************************************)
WeekNumbers == 0..2
TaskLists == {[i \in 1..k |-> "task"] : k \in 1..MaxTasks}
Weeks == [week_number : WeekNumbers, tasks : TaskLists]
WeekLists == UNION {[1..n -> Weeks] : n \in 0..MaxWeeks}

NotJson == [kind |-> "text"]
JsonBody(title, weeks) ==
    [kind |-> "json", title |-> title, objectives |-> <<"goal">>, weeks |-> weeks]
OneWeek == <<[week_number |-> 1, tasks |-> <<"task">>]>>

\* The payloads the vendor can return with a 2xx status.
VendorBodies ==
    {NotJson,
     [kind |-> "json", objectives |-> <<"goal">>, weeks |-> OneWeek],
     [kind |-> "json", title |-> "Plan", objectives |-> <<"goal">>]}
    \cup {JsonBody("Plan", w) : w \in WeekLists}

\* How the single HTTP call to the vendor can end.
VendorFailures == {"timeout", "network", "non2xx", "auth"}

\* Parses without the check of the week numbers.
ParsesAnyWeekNumber(raw) ==
    /\ raw.kind = "json"
    /\ "title" \in DOMAIN raw
    /\ "weeks" \in DOMAIN raw

\* Response parser (4.3): TRUE when the payload is a GeneratedStudyPlan.
Parses(raw) ==
    /\ raw.kind = "json"
    /\ "title" \in DOMAIN raw
    /\ "weeks" \in DOMAIN raw
    /\ \A i \in 1..Len(raw.weeks) : raw.weeks[i].week_number >= 1

\* ParsedPlan that loses the last week of the payload.
ParsedPlanDropsLastWeek(raw) ==
    [title |-> raw.title, objectives |-> raw.objectives,
     weeks |-> SubSeq(raw.weeks, 1, Len(raw.weeks) - 1)]

\* The GeneratedStudyPlan the parser produces from a payload that parses.
ParsedPlan(raw) ==
    [title |-> raw.title, objectives |-> raw.objectives, weeks |-> raw.weeks]

\* Validates without the upper bound on the weekly hours.
ValidatesNoUpperBound(payload) ==
    /\ payload.subject # ""
    /\ payload.study_hours_per_week >= MinHours
    /\ payload.current_level \in Levels

\* Validates without the check of current_level.
ValidatesAnyLevel(payload) ==
    /\ payload.subject # ""
    /\ payload.study_hours_per_week >= MinHours
    /\ payload.study_hours_per_week <= MaxHours

\* Request validator (4.1): TRUE when the request is accepted.
Validates(payload) ==
    /\ payload.subject # ""
    /\ payload.study_hours_per_week >= MinHours
    /\ payload.study_hours_per_week <= MaxHours
    /\ payload.current_level \in Levels

(***************************************************************************)
(* The unified envelope {code, message, data} (design document 7.4).       *)
(***************************************************************************)
FailureKinds ==
    {"ValidationError", "UpstreamServiceError", "UpstreamAuthError",
     "UnparseableResponseError", "PersistenceError"}

SuccessCode == 0

\* ErrorCode with one code for both upstream failures.
ErrorCodeSharedUpstream(kind) ==
    CASE kind = "ValidationError" -> 42200
      [] kind = "UnparseableResponseError" -> 42201
      [] kind = "UpstreamServiceError" -> 50200
      [] kind = "UpstreamAuthError" -> 50200
      [] kind = "PersistenceError" -> 50000

\* The business code of each failure kind.
ErrorCode(kind) ==
    CASE kind = "ValidationError" -> 42200
      [] kind = "UnparseableResponseError" -> 42201
      [] kind = "UpstreamServiceError" -> 50200
      [] kind = "UpstreamAuthError" -> 50201
      [] kind = "PersistenceError" -> 50000

\* The HTTP statuses a failure of each kind can be answered with.
HttpStatuses(kind) ==
    CASE kind = "ValidationError" -> {422}
      [] kind = "UnparseableResponseError" -> {422}
      [] kind = "UpstreamServiceError" -> {502}
      [] kind = "UpstreamAuthError" -> {500}
      [] kind = "PersistenceError" -> {200, 500}

\* An optional value (null or a value) is the empty set or a singleton.
None == {}
Some(x) == {x}

\* data of a generated plan; saved_plan_id is null when the plan has no row.
PlanData(plan, saved) ==
    [plan_title |-> plan.title,
     learning_objectives |-> plan.objectives,
     weekly_schedule |->
        [i \in 1..Len(plan.weeks) |->
            [week |-> plan.weeks[i].week_number, tasks |-> plan.weeks[i].tasks]],
     saved_plan_id |-> saved]

SuccessResponse(plan, id) ==
    [status |-> 200, code |-> SuccessCode, message |-> "Success",
     data |-> PlanData(plan, Some(id))]

\* data of a failure: null, except that a persistence failure carries the
\* plan that was generated but not saved.
FailureData(kind, plan) ==
    IF kind = "PersistenceError" THEN PlanData(plan, None) ELSE Null

\* FailureResponse that always fills data.
FailureResponseWithData(kind, status, plan) ==
    [status |-> status, code |-> ErrorCode(kind), message |-> kind,
     data |-> PlanData(plan, None)]

\* FailureResponse that leaves the success code in the envelope.
FailureResponseZeroCode(kind, status, plan) ==
    [status |-> status, code |-> SuccessCode, message |-> kind,
     data |-> FailureData(kind, plan)]

\* The failure envelope: a non-zero business code, the message and data.
FailureResponse(kind, status, plan) ==
    [status |-> status, code |-> ErrorCode(kind), message |-> kind,
     data |-> FailureData(kind, plan)]

(***************************************************************************)
(* Tables study_plans and study_tasks (sql/init.sql).                      *)
(***************************************************************************)
\* AUTO_INCREMENT: the first id a table hands out.
AutoIncrementStart == 1

\* Column defaults of study_plans.
StudyPlanDefaults ==
    [is_public |-> FALSE, is_ai_generated |-> FALSE, status |-> "ongoing"]

\* StudyPlanRow that does not store the is_ai_generated column.
StudyPlanRowFlagDropped(id, cols) ==
    [id |-> id,
     user_id |-> cols.user_id,
     title |-> cols.title,
     description |-> Null,
     is_public |-> FALSE,
     is_ai_generated |-> FALSE,
     status |-> "ongoing"]

\* INSERT INTO study_plans: the row stored for the given columns.
StudyPlanRow(id, cols) ==
    [id |-> id,
     user_id |-> cols.user_id,
     title |-> cols.title,
     description |-> IF "description" \in DOMAIN cols THEN cols.description ELSE Null,
     is_public |-> StudyPlanDefaults.is_public,
     is_ai_generated |->
        IF "is_ai_generated" \in DOMAIN cols THEN cols.is_ai_generated
        ELSE StudyPlanDefaults.is_ai_generated,
     status |-> StudyPlanDefaults.status]

\* INSERT INTO study_tasks: the n-th row inserted for a plan.  The table has
\* no column for the week of a task; ord stands for the AUTO_INCREMENT id,
\* of which only the order within the plan is kept.
StudyTaskRow(plan_id, n, title) ==
    [plan_id |-> plan_id, ord |-> n, title |-> title,
     status |-> "pending", priority |-> "medium"]

\* A table without transactions: the inserted rows stay after a rollback.
AfterRollbackNoTx(committed, pending) == committed \cup pending

\* ENGINE=InnoDB: a rollback discards the rows the transaction inserted.
AfterRollback(committed, pending) == committed

\* A commit that writes the transaction's rows over the table.
AfterCommitOverwrites(committed, pending) == pending

\* COMMIT: the rows of the transaction become visible together.
AfterCommit(committed, pending) == committed \cup pending

\* The (week, task) positions of a plan, in insertion order.
RECURSIVE TaskSlots(_, _)
TaskSlots(weeks, w) ==
    IF w > Len(weeks) THEN <<>>
    ELSE [t \in 1..Len(weeks[w].tasks) |-> <<w, t>>] \o TaskSlots(weeks, w + 1)

TaskCount(plan) == Len(TaskSlots(plan.weeks, 1))

\* Length of the list x.f, 0 when x has no property f.
Count(x, f) == IF f \in DOMAIN x THEN Len(x[f]) ELSE 0

\* ApiService.getStudyTasks(planId): the tasks of a plan, in the order of
\* their ids, as the StudyTask objects a client receives.
getStudyTasks(rows, planId) ==
    LET mine == {t \in rows : t.plan_id = planId} IN
    [n \in 1..Cardinality(mine) |->
        LET t == CHOOSE x \in mine : x.ord = n IN
        [study_plan_id |-> t.plan_id, title |-> t.title, status |-> t.status,
         priority |-> t.priority]]

\* ApiService.getStudyPlan(id): the StudyPlan object a client receives for a
\* row of study_plans, with the tasks read for it.
getStudyPlan(plans, tasks, id) ==
    LET p == CHOOSE x \in plans : x.id = id IN
    [id |-> p.id, user_id |-> p.user_id, title |-> p.title,
     description |-> p.description, is_public |-> p.is_public, is_ai_generated |-> p.is_ai_generated,
     tasks |-> getStudyTasks(tasks, id)]

(***************************************************************************)
(* State.                                                                  *)
(***************************************************************************)
VARIABLES
    requests,       \* the generation requests received by the backend, in order
    study_plans,    \* committed rows of study_plans
    study_tasks,    \* committed rows of study_tasks
    nextPlanId,     \* AUTO_INCREMENT counter of study_plans
    page,           \* state of AIStudyPlanPage
    submitted,      \* generation requests submitted so far, by any client
    localStorage,   \* window.localStorage: access_token and refresh_token
    authStore,      \* useAuthStore: user, token, isAuthenticated
    location,       \* the path the browser shows
    mutations,      \* loginMutation and logoutMutation of useAuth
    http,           \* requests sent and not yet answered, in order
    user_sessions,  \* rows of user_sessions
    users,          \* rows of users
    error_logs,     \* rows of error_logs
    conversations,  \* rows of conversations
    messages,       \* rows of messages
    autoIncrement,  \* AUTO_INCREMENT counters of the other tables
    chat            \* state of ConversationsPage

workflowVars == <<requests, study_plans, study_tasks, nextPlanId, page, submitted>>
authVars == <<localStorage, authStore, location, mutations, http, user_sessions>>
tableVars == <<users, error_logs, conversations, messages, autoIncrement>>

vars == <<requests, study_plans, study_tasks, nextPlanId, page, submitted,
          localStorage, authStore, location, mutations, http, user_sessions,
          users, error_logs, conversations, messages, autoIncrement, chat>>

\* localStorage without tokens (getItem returns null).
NoTokens == [access_token |-> Null, refresh_token |-> Null]

\* No response has come back through ApiService yet.
NoneReceived == [status |-> 0, as |-> "none", before |-> NoTokens]

\* initial state of the auth store
LoggedOut == [user |-> Null, token |-> Null, isAuthenticated |-> FALSE]

\* A browser that opens the login page with nothing stored.
InitBrowser ==
    /\ localStorage = NoTokens
    /\ authStore = LoggedOut
    /\ location = "/login"
    /\ mutations = [login |-> "idle", access_token |-> Null, outcome |-> "none",
                    logout |-> "idle", loggedOut |-> {},
                    received |-> NoneReceived,
                    register |-> "idle", registers |-> 0, registered |-> "none"]
    /\ http = <<>>
    /\ user_sessions = {}

\* INSERT INTO users: the row of a registered user.
UserRow(id) == [id |-> id, is_active |-> TRUE]

\* The page on which no message has been sent.
NoChat ==
    [newMessage |-> "", isSending |-> FALSE, selectedConversation |-> Null,
     sends |-> <<>>]

\* The two users are registered; nothing else is stored.
InitTables ==
    /\ users = {UserRow(PageUser), UserRow(ApiUser)}
    /\ error_logs = {}
    /\ conversations = {}
    /\ messages = {}
    /\ autoIncrement = [users |-> 3, study_tasks |-> AutoIncrementStart,
                        error_logs |-> AutoIncrementStart,
                        conversations |-> AutoIncrementStart,
                        messages |-> AutoIncrementStart,
                        user_sessions |-> AutoIncrementStart]
    /\ chat = NoChat

NoTx == [plans |-> {}, tasks |-> {}]
NoPlan == [title |-> "", objectives |-> <<>>, weeks |-> <<>>]

NewRequest(sub, origin, user, payload) ==
    [sub |-> sub,               \* the submission the POST belongs to
     origin |-> origin, user |-> user, payload |-> payload,
     state |-> "Validating", reason |-> "",
     vendorCalls |-> 0,         \* HTTP calls of the adapter to the vendor
     vendor |-> "",             \* how the vendor call ended
     raw |-> Null,              \* payload returned by the vendor
     plan |-> NoPlan,           \* GeneratedStudyPlan of the parser
     persistCalls |-> 0,        \* invocations of the plan persister
     tx |-> NoTx,               \* rows inserted by the open transaction
     rowId |-> None,            \* id handed out to the request's study_plans row
     response |-> Null]         \* envelope returned to the caller

Init ==
    /\ requests = <<>>
    /\ study_plans = {}
    /\ study_tasks = {}
    /\ nextPlanId = AutoIncrementStart
    /\ page = [loading |-> FALSE, result |-> Null, lastParams |-> Null,
               values |-> initialValues, toasts |-> <<>>, req |-> 0,
               sub |-> 0]
    /\ submitted = 0
    /\ InitBrowser
    /\ InitTables

(***************************************************************************)
(* Backend workflow of POST /study-plans/generate, one step at a time:     *)
(* Validating -> Calling-AI -> Parsing -> Persisting -> Done, or Failed.   *)
(***************************************************************************)
InState(r, st) == r \in 1..Len(requests) /\ requests[r].state = st

\* The request fails: it becomes Failed(kind) and the envelope is returned.
Failed(r, kind, status) ==
    [requests[r] EXCEPT
        !.state = "Failed", !.reason = kind, !.tx = NoTx,
        !.response = FailureResponse(kind, status, requests[r].plan)]

\* 4.1 Request validator.
Validate(r) ==
    /\ InState(r, "Validating")
    /\ IF Validates(requests[r].payload)
       THEN requests' = [requests EXCEPT ![r].state = "CallingAI"]
       ELSE \E status \in HttpStatuses("ValidationError") :
               requests' = [requests EXCEPT ![r] = Failed(r, "ValidationError", status)]
    /\ UNCHANGED <<study_plans, study_tasks, nextPlanId, page, submitted>>

\* 4.2 External AI adapter: the one HTTP request to the vendor is sent.
AdapterSend(r) ==
    /\ InState(r, "CallingAI")
    /\ requests[r].vendorCalls = 0
    /\ requests' = [requests EXCEPT ![r].vendorCalls = @ + 1]
    /\ UNCHANGED <<study_plans, study_tasks, nextPlanId, page, submitted>>

\* UpstreamKind that does not tell a bad API key from a transient failure.
UpstreamKindNoAuth(outcome) == "UpstreamServiceError"

\* The failure kind signalled for an outcome of the vendor call.
UpstreamKind(outcome) ==
    IF outcome = "auth" THEN "UpstreamAuthError" ELSE "UpstreamServiceError"

\* 4.2 The vendor call fails.
AdapterFail(r) ==
    /\ InState(r, "CallingAI")
    /\ requests[r].vendorCalls > 0
    /\ \E outcome \in VendorFailures :
       \E status \in HttpStatuses(UpstreamKind(outcome)) :
          requests' = [requests EXCEPT
              ![r] = [Failed(r, UpstreamKind(outcome), status) EXCEPT !.vendor = outcome]]
    /\ UNCHANGED <<study_plans, study_tasks, nextPlanId, page, submitted>>

\* 4.2 The vendor answers with a 2xx status and a payload.
AdapterReceive(r) ==
    /\ InState(r, "CallingAI")
    /\ requests[r].vendorCalls > 0
    /\ \E body \in VendorBodies :
          requests' = [requests EXCEPT
              ![r].state = "Parsing", ![r].vendor = "ok", ![r].raw = body]
    /\ UNCHANGED <<study_plans, study_tasks, nextPlanId, page, submitted>>

\* Parse that asks the vendor again when the payload does not parse.
ParseWithRetry(r) ==
    /\ InState(r, "Parsing")
    /\ IF Parses(requests[r].raw)
       THEN requests' = [requests EXCEPT
               ![r].state = "Persisting", ![r].plan = ParsedPlan(requests[r].raw)]
       ELSE requests' = [requests EXCEPT ![r].state = "CallingAI", ![r].raw = Null]
    /\ UNCHANGED <<study_plans, study_tasks, nextPlanId, page, submitted>>

\* 4.3 Response parser.
Parse(r) ==
    /\ InState(r, "Parsing")
    /\ IF Parses(requests[r].raw)
       THEN requests' = [requests EXCEPT
               ![r].state = "Persisting", ![r].plan = ParsedPlan(requests[r].raw)]
       ELSE \E status \in HttpStatuses("UnparseableResponseError") :
               requests' = [requests EXCEPT
                   ![r] = Failed(r, "UnparseableResponseError", status)]
    /\ UNCHANGED <<study_plans, study_tasks, nextPlanId, page, submitted>>

\* 4.4 Plan persister: the transaction starts with the study_plans row.
PersistPlan(r) ==
    /\ InState(r, "Persisting")
    /\ requests[r].persistCalls = 0
    /\ requests' = [requests EXCEPT
          ![r].persistCalls = @ + 1,
          ![r].rowId = Some(nextPlanId),
          ![r].tx.plans = {StudyPlanRow(nextPlanId,
                              [user_id |-> requests[r].user,
                               title |-> requests[r].plan.title,
                               is_ai_generated |-> TRUE])}]
    /\ nextPlanId' = nextPlanId + 1
    /\ UNCHANGED <<study_plans, study_tasks, page, submitted>>

\* 4.4 The next study_tasks row of the plan is inserted in the transaction.
PersistTask(r) ==
    /\ InState(r, "Persisting")
    /\ requests[r].persistCalls > 0
    /\ LET slots == TaskSlots(requests[r].plan.weeks, 1)
           n == Cardinality(requests[r].tx.tasks)
       IN /\ n < Len(slots)
          /\ \E id \in requests[r].rowId :
                requests' = [requests EXCEPT
                    ![r].tx.tasks = @ \cup
                        {StudyTaskRow(id, n + 1,
                            requests[r].plan.weeks[slots[n + 1][1]].tasks[slots[n + 1][2]])}]
    /\ UNCHANGED <<study_plans, study_tasks, nextPlanId, page, submitted>>

\* 4.4 All rows are inserted: the transaction commits and the request is Done.
PersistCommit(r) ==
    /\ InState(r, "Persisting")
    /\ requests[r].persistCalls > 0
    /\ Cardinality(requests[r].tx.tasks) = TaskCount(requests[r].plan)
    /\ study_plans' = AfterCommit(study_plans, requests[r].tx.plans)
    /\ study_tasks' = AfterCommit(study_tasks, requests[r].tx.tasks)
    /\ \E id \in requests[r].rowId :
          requests' = [requests EXCEPT
              ![r].state = "Done", ![r].tx = NoTx,
              ![r].response = SuccessResponse(requests[r].plan, id)]
    /\ UNCHANGED <<nextPlanId, page, submitted>>

\* 4.4 Storage fails before the commit: the transaction is rolled back.
PersistFail(r) ==
    /\ InState(r, "Persisting")
    /\ study_plans' = AfterRollback(study_plans, requests[r].tx.plans)
    /\ study_tasks' = AfterRollback(study_tasks, requests[r].tx.tasks)
    /\ \E status \in HttpStatuses("PersistenceError") :
          requests' = [requests EXCEPT ![r] = Failed(r, "PersistenceError", status)]
    /\ UNCHANGED <<nextPlanId, page, submitted>>

(***************************************************************************)
(* ApiService and AIStudyPlanPage.                                         *)
(***************************************************************************)
\* Post that sends the request again (a retry of the HTTP layer).
PostWithRetry(queue, request) == Append(Append(queue, request), request)

\* this.api.post(url, data): the HTTP request reaches the backend once.
Post(queue, request) == Append(queue, request)

\* ApiService.generateAIStudyPlan(planData) of the logged-in user.
generateAIStudyPlan(sub, planData) ==
    Post(requests, NewRequest(sub, "page", PageUser, planData))

\* The body {code, message, data} of an HTTP response.
Body(resp) == [code |-> resp.code, message |-> resp.message, data |-> resp.data]

\* JavaScript truthiness of a result, of a string and of an optional id.
Truthy(x) == x # Null /\ x # Undefined
TruthyId(saved) == \E id \in saved : id # 0

\* result.f, or the default when the property is missing (result.f || d).
Prop(x, f, d) == IF f \in DOMAIN x THEN x[f] ELSE d

\* validateFields without the rule of the subject item.
validateFieldsNoSubjectRule(values) ==
    /\ values.time_frame # ""
    /\ values.current_level # ""
    /\ values.study_hours_per_week # NoValue

\* form.validateFields(): the rules of the form items (all `required`).
validateFields(values) ==
    /\ values.subject # ""
    /\ values.time_frame # ""
    /\ values.current_level # ""
    /\ values.study_hours_per_week # NoValue

Toast(type, text) == [type |-> type, text |-> text]
DefaultError == "generation failed"

\* The catch block of handleSubmit, for an error without a response
\* (a rejected validateFields, or a request that timed out).
CatchNoResponse(values) ==
    [page EXCEPT !.values = values, !.result = Undefined,
                 !.toasts = <<Toast("error", DefaultError)>>,
                 !.loading = FALSE, !.req = 0]

\* The catch block of handleSubmit, for an error response of the backend.
CatchResponse(resp) ==
    [page EXCEPT
        !.result = Body(resp),
        !.toasts = <<
            IF resp.status = 422 THEN Toast("error", "invalid")
            ELSE IF resp.status = 502 THEN Toast("error", "upstream")
            ELSE IF resp.status = 401 THEN Toast("warning", "expired")
            ELSE Toast("error", resp.message) >>,
        !.loading = FALSE, !.req = 0]

\* The try block of handleSubmit after the await, for a 2xx response.
ThenResponse(resp) ==
    [page EXCEPT
        !.result = resp.data,
        !.toasts = <<Toast("success", "generated")>> \o
            (IF TruthyId(Prop(resp.data, "saved_plan_id", None))
             THEN <<Toast("success", "saved")>> ELSE <<>>),
        !.loading = FALSE, !.req = 0]

\* The payload handleSubmit builds from the validated values.
Payload(values) ==
    [subject |-> values.subject,
     time_frame |-> values.time_frame,
     learning_goals |-> values.learning_goals,
     current_level |-> values.current_level,
     study_hours_per_week |-> values.study_hours_per_week]

\* handleSubmit, up to the await of the POST: the button is clicked with
\* `values` in the form.
HandleSubmit ==
    /\ ~page.loading
    /\ \E values \in FormValues :
        IF validateFields(values)
        THEN /\ submitted < MaxRequests
             /\ submitted' = submitted + 1
             /\ requests' = generateAIStudyPlan(submitted + 1, Payload(values))
             /\ page' = [page EXCEPT
                    !.values = values, !.loading = TRUE, !.result = Null,
                    !.lastParams = Payload(values), !.toasts = <<>>,
                    !.req = Len(requests) + 1, !.sub = submitted + 1]
        ELSE /\ page' = CatchNoResponse(values)
             /\ UNCHANGED <<requests, submitted>>
    /\ UNCHANGED <<study_plans, study_tasks, nextPlanId>>

\* handleSubmit, after the await: the response of the backend arrives.
HandleSubmitResponse ==
    /\ page.loading
    /\ page.req \in 1..Len(requests)
    /\ LET resp == requests[page.req].response IN
        /\ resp # Null
        /\ page' = IF resp.status \in 200..299 THEN ThenResponse(resp)
                   ELSE CatchResponse(resp)
    /\ UNCHANGED <<requests, study_plans, study_tasks, nextPlanId, submitted>>

\* handleSubmit, after the await: no response within the axios timeout.
HandleSubmitTimeout ==
    /\ page.loading
    /\ page.req \in 1..Len(requests)
    /\ requests[page.req].response = Null
    /\ page' = CatchNoResponse(page.values)
    /\ UNCHANGED <<requests, study_plans, study_tasks, nextPlanId, submitted>>

\* The button that clears the displayed result: setResult(null).
ClearResult ==
    /\ ~page.loading
    /\ Truthy(page.result)
    /\ page' = [page EXCEPT !.result = Null]
    /\ UNCHANGED <<requests, study_plans, study_tasks, nextPlanId, submitted>>

\* renderPlan(): what the result card shows.
renderPlan ==
    IF page.loading THEN [view |-> "spin"]
    ELSE IF ~Truthy(page.result) THEN [view |-> "placeholder"]
    ELSE [view |-> "plan",
          title |-> Prop(page.result, "plan_title", "default title"),
          objectives |-> Prop(page.result, "learning_objectives", <<>>),
          weeks |-> Prop(page.result, "weekly_schedule", <<>>),
          saved |-> IF TruthyId(Prop(page.result, "saved_plan_id", None))
                    THEN page.result.saved_plan_id ELSE None]

\* Another client posts a body to the endpoint.
ApiSubmit ==
    /\ submitted < MaxRequests
    /\ submitted' = submitted + 1
    /\ \E body \in ApiPayloads :
          requests' = Post(requests, NewRequest(submitted + 1, "api", ApiUser, body))
    /\ UNCHANGED <<study_plans, study_tasks, nextPlanId, page>>

Next ==
    \/ HandleSubmit /\ UNCHANGED <<authVars, tableVars, chat>>
    \/ HandleSubmitResponse /\ UNCHANGED <<authVars, tableVars, chat>>
    \/ HandleSubmitTimeout /\ UNCHANGED <<authVars, tableVars, chat>>
    \/ ClearResult /\ UNCHANGED <<authVars, tableVars, chat>>
    \/ ApiSubmit /\ UNCHANGED <<authVars, tableVars, chat>>
    \/ \E r \in 1..Len(requests) : Validate(r) /\ UNCHANGED <<authVars, tableVars, chat>>
    \/ \E r \in 1..Len(requests) : AdapterSend(r) /\ UNCHANGED <<authVars, tableVars, chat>>
    \/ \E r \in 1..Len(requests) : AdapterFail(r) /\ UNCHANGED <<authVars, tableVars, chat>>
    \/ \E r \in 1..Len(requests) : AdapterReceive(r) /\ UNCHANGED <<authVars, tableVars, chat>>
    \/ \E r \in 1..Len(requests) : Parse(r) /\ UNCHANGED <<authVars, tableVars, chat>>
    \/ \E r \in 1..Len(requests) : PersistPlan(r) /\ UNCHANGED <<authVars, tableVars, chat>>
    \/ \E r \in 1..Len(requests) : PersistTask(r) /\ UNCHANGED <<authVars, tableVars, chat>>
    \/ \E r \in 1..Len(requests) : PersistCommit(r) /\ UNCHANGED <<authVars, tableVars, chat>>
    \/ \E r \in 1..Len(requests) : PersistFail(r) /\ UNCHANGED <<authVars, tableVars, chat>>

Spec == Init /\ [][Next]_vars

(***************************************************************************)
(* The parser and the persister on their own: one request whose vendor     *)
(* call has returned any of the payloads, followed through 4.3 and 4.4.    *)
(***************************************************************************)
ReceivedRequest(user, body) ==
    [NewRequest(1, "api", user,
        [subject |-> "Math", time_frame |-> "8w", current_level |-> "intermediate",
         study_hours_per_week |-> 10, learning_goals |-> <<"algebra">>])
     EXCEPT !.state = "Parsing", !.vendorCalls = 1, !.vendor = "ok", !.raw = body]

InitParser ==
    /\ \E user \in {PageUser, ApiUser} : \E body \in VendorBodies :
          requests = <<ReceivedRequest(user, body)>>
    /\ study_plans = {}
    /\ study_tasks = {}
    /\ nextPlanId = AutoIncrementStart
    /\ page = [loading |-> FALSE, result |-> Null, lastParams |-> Null,
               values |-> initialValues, toasts |-> <<>>, req |-> 0,
               sub |-> 0]
    /\ submitted = 1
    /\ InitBrowser
    /\ InitTables

NextParser ==
    \/ Parse(1) /\ UNCHANGED <<authVars, tableVars, chat>>
    \/ PersistPlan(1) /\ UNCHANGED <<authVars, tableVars, chat>>
    \/ PersistTask(1) /\ UNCHANGED <<authVars, tableVars, chat>>
    \/ PersistCommit(1) /\ UNCHANGED <<authVars, tableVars, chat>>
    \/ PersistFail(1) /\ UNCHANGED <<authVars, tableVars, chat>>

SpecParser == InitParser /\ [][NextParser]_vars

(***************************************************************************)
(* Cancellation (5): a host framework that supports it cancels the request *)
(* when its client goes away.  One request is followed from its arrival.   *)
(***************************************************************************)
\* The request is cancelled before it is Done: the call to the vendor, if
\* in flight, is aborted, the open transaction is rolled back, persistence
\* is skipped and no envelope is returned.
Cancel(r) ==
    /\ r \in 1..Len(requests)
    /\ requests[r].state \notin {"Done", "Failed"}
    /\ study_plans' = AfterRollback(study_plans, requests[r].tx.plans)
    /\ study_tasks' = AfterRollback(study_tasks, requests[r].tx.tasks)
    /\ requests' = [requests EXCEPT
          ![r].state = "Failed", ![r].reason = "Cancelled", ![r].tx = NoTx,
          ![r].vendor = IF requests[r].state = "CallingAI" /\ requests[r].vendorCalls > 0
                        THEN "aborted" ELSE @]
    /\ UNCHANGED <<nextPlanId, page, submitted>>

InitCancel ==
    /\ \E body \in ApiPayloads : requests = <<NewRequest(1, "api", ApiUser, body)>>
    /\ study_plans = {}
    /\ study_tasks = {}
    /\ nextPlanId = AutoIncrementStart
    /\ page = [loading |-> FALSE, result |-> Null, lastParams |-> Null,
               values |-> initialValues, toasts |-> <<>>, req |-> 0,
               sub |-> 0]
    /\ submitted = 1
    /\ InitBrowser
    /\ InitTables

NextCancel ==
    \/ Validate(1) /\ UNCHANGED <<authVars, tableVars, chat>>
    \/ AdapterSend(1) /\ UNCHANGED <<authVars, tableVars, chat>>
    \/ AdapterFail(1) /\ UNCHANGED <<authVars, tableVars, chat>>
    \/ AdapterReceive(1) /\ UNCHANGED <<authVars, tableVars, chat>>
    \/ Parse(1) /\ UNCHANGED <<authVars, tableVars, chat>>
    \/ PersistPlan(1) /\ UNCHANGED <<authVars, tableVars, chat>>
    \/ PersistTask(1) /\ UNCHANGED <<authVars, tableVars, chat>>
    \/ PersistCommit(1) /\ UNCHANGED <<authVars, tableVars, chat>>
    \/ PersistFail(1) /\ UNCHANGED <<authVars, tableVars, chat>>
    \/ Cancel(1) /\ UNCHANGED <<authVars, tableVars, chat>>

SpecCancel == InitCancel /\ [][NextCancel]_vars

(***************************************************************************)
(* Authentication: the interceptors of ApiService, useAuth, LoginPage, the  *)
(* logout of Layout, and the sessions the backend keeps in user_sessions.   *)
(***************************************************************************)
MaxLogins == 2        \* logins the backend accepts in one behaviour

\* The tokens of the n-th session (TokenResponse).
Jwt(n) == [kind |-> "jwt", jti |-> n]
RefreshToken(n) == [kind |-> "refresh", jti |-> n]

\* The Authorization header of a request: absent, or `Bearer ${token}`.
NoHeader == [scheme |-> "none"]
Bearer(token) == [scheme |-> "Bearer", token |-> token]

\* The axios config of a request before the interceptors.
Config(kind) == [kind |-> kind, Authorization |-> NoHeader]

\* A request interceptor that reads the wrong item of localStorage.
RequestInterceptorRefreshToken(config, storage) ==
    LET token == storage.refresh_token IN
    IF token # Null THEN [config EXCEPT !.Authorization = Bearer(token)]
    ELSE config

\* The request interceptor of ApiService.
RequestInterceptor(config, storage) ==
    LET token == storage.access_token IN
    IF token # Null THEN [config EXCEPT !.Authorization = Bearer(token)]
    ELSE config

\* this.api.get / this.api.post: the config passes the request interceptor
\* and the request is sent; `stored` keeps what localStorage held then.
ApiSend(queue, kind, storage) ==
    LET config == RequestInterceptor(Config(kind), storage) IN
    Append(queue, [kind |-> config.kind, Authorization |-> config.Authorization,
                   stored |-> storage.access_token])

\* The request at position i is answered and leaves the queue.
Answered(queue, i) ==
    [k \in 1..(Len(queue) - 1) |-> IF k < i THEN queue[k] ELSE queue[k + 1]]

InFlight(kind) == {i \in 1..Len(http) : http[i].kind = kind}

\* An HTTP response {status, body {code, message, data}}; NoResponse is a
\* request that ends without one (timeout, network error).
Envelope(status, code, data) == [status |-> status, code |-> code, data |-> data]
NoResponse == [status |-> 0, code |-> 0, data |-> Null]
Is2xx(resp) == resp.status \in 200..299

\* A response interceptor that removes the access_token only.
ResponseInterceptorKeepsRefresh(resp, storage) ==
    IF resp.status = 401 THEN [storage EXCEPT !.access_token = Null] ELSE storage

\* The response interceptor of ApiService, on an error: what it leaves in
\* localStorage, and where it sends the browser.
ResponseInterceptor(resp, storage) ==
    IF resp.status = 401 THEN NoTokens ELSE storage

ResponseInterceptorRedirect(resp, path) ==
    IF resp.status = 401 THEN "/login" ELSE path

\* How the response interceptor hands the response to the caller:
\* `(response) => response`, or `return Promise.reject(error)`.
ResponseInterceptorResult(resp) ==
    IF Is2xx(resp) THEN "fulfilled" ELSE "rejected"

\* The last response that came back through ApiService: its status, how it
\* reached the caller, and what localStorage held when it arrived.
Received(resp, storage) ==
    [status |-> resp.status, as |-> ResponseInterceptorResult(resp),
     before |-> storage]

\* useAuthStore().login(user, token) and useAuthStore().logout().
StoreLogin(user, token) == [user |-> user, token |-> token, isAuthenticated |-> TRUE]
StoreLogout == LoggedOut

\* INSERT INTO user_sessions: the session of the n-th login.  `expired`
\* tells whether expires_at has passed.
UserSessionRow(n, user_id) ==
    [id |-> n, user_id |-> user_id, token_jti |-> n, is_revoked |-> FALSE,
     expired |-> FALSE]

\* JWT middleware: a request is authenticated when it presents the JWT of a
\* session that has not expired and is not revoked.
Accepts(sessions, header) ==
    /\ header.scheme = "Bearer"
    /\ header.token.kind = "jwt"
    /\ \E s \in sessions :
          s.token_jti = header.token.jti /\ ~s.is_revoked /\ ~s.expired

\* Logout on the backend: the session of the presented JWT is revoked.
Revoke(sessions, header) ==
    {IF header.scheme = "Bearer" /\ s.token_jti = header.token.jti
     THEN [s EXCEPT !.is_revoked = TRUE] ELSE s : s \in sessions}

UserData == [id |-> PageUser, username |-> "testuser"]

\* An onFinish that does not await loginAsync.
onFinishNoAwait(phase, path) ==
    IF phase = "called" THEN "/dashboard" ELSE path

\* LoginPage.onFinish: where the browser is after loginAsync was called,
\* after its promise resolved, and after it rejected.
onFinish(phase, path) ==
    IF phase = "resolved" THEN "/dashboard" ELSE path

\* The login form is submitted: loginAsync posts /auth/login.
LoginOnFinish ==
    /\ location = "/login"
    /\ mutations.login = "idle"
    /\ http' = ApiSend(http, "login", localStorage)
    /\ mutations' = [mutations EXCEPT !.login = "login", !.access_token = Null,
                                      !.outcome = "none"]
    /\ location' = onFinish("called", location)
    /\ UNCHANGED <<localStorage, authStore, user_sessions>>

\* The answers the backend can give to POST /auth/login.
LoginFailures ==
    {Envelope(200, 1001, Null), Envelope(401, 1001, Null),
     Envelope(500, 5000, Null), NoResponse}

\* loginMutation.onSuccess up to the await of getCurrentUser, for the
\* envelope of a 2xx answer; otherwise onError and the rejection.
LoginSettle(i, resp) ==
    IF Is2xx(resp)
    THEN IF resp.code = 0
         THEN LET storage == [access_token |-> resp.data.access_token,
                              refresh_token |-> resp.data.refresh_token] IN
              /\ localStorage' = storage
              /\ http' = ApiSend(Answered(http, i), "me", storage)
              /\ mutations' = [mutations EXCEPT
                    !.login = "me", !.access_token = resp.data.access_token,
                    !.received = Received(resp, localStorage)]
              /\ UNCHANGED <<location, authStore>>
         ELSE /\ http' = Answered(http, i)
              /\ mutations' = [mutations EXCEPT !.login = "idle", !.outcome = "loginCode",
                                                !.received = Received(resp, localStorage)]
              /\ location' = onFinish("resolved", location)
              /\ UNCHANGED <<localStorage, authStore>>
    ELSE /\ localStorage' = ResponseInterceptor(resp, localStorage)
         /\ http' = Answered(http, i)
         /\ mutations' = [mutations EXCEPT !.login = "idle", !.outcome = "loginError",
                                           !.received = Received(resp, localStorage)]
         /\ location' = onFinish("rejected", ResponseInterceptorRedirect(resp, location))
         /\ UNCHANGED authStore

\* POST /auth/login is answered.
LoginAnswer(i) ==
    /\ i \in InFlight("login")
    /\ \/ /\ Cardinality(user_sessions) < MaxLogins
          /\ LET n == Cardinality(user_sessions) + 1 IN
             /\ user_sessions' = user_sessions \cup {UserSessionRow(n, PageUser)}
             /\ LoginSettle(i, Envelope(200, 0,
                    [access_token |-> Jwt(n), refresh_token |-> RefreshToken(n)]))
       \/ /\ UNCHANGED user_sessions
          /\ \E resp \in LoginFailures : LoginSettle(i, resp)

\* The answers the backend can give to GET /auth/me.
MeAnswers(accepted) ==
    IF accepted
    THEN {Envelope(200, 0, UserData), Envelope(200, 1002, Null),
          Envelope(500, 5000, Null), NoResponse}
    ELSE {Envelope(401, 1001, Null)}

\* GET /auth/me of the login is answered: the rest of
\* loginMutation.onSuccess, or onError when getCurrentUser throws, and the
\* continuation of onFinish.
MeAnswer(i) ==
    /\ i \in InFlight("me")
    /\ \E resp \in MeAnswers(Accepts(user_sessions, http[i].Authorization)) :
        IF Is2xx(resp)
        THEN /\ IF resp.code = 0
                THEN /\ authStore' = StoreLogin(resp.data, mutations.access_token)
                     /\ mutations' = [mutations EXCEPT !.login = "idle", !.outcome = "success",
                             !.received = Received(resp, localStorage)]
                ELSE /\ mutations' = [mutations EXCEPT !.login = "idle", !.outcome = "meCode",
                             !.received = Received(resp, localStorage)]
                     /\ UNCHANGED authStore
             /\ location' = onFinish("resolved", location)
             /\ UNCHANGED localStorage
        ELSE /\ localStorage' = ResponseInterceptor(resp, localStorage)
             /\ mutations' = [mutations EXCEPT !.login = "idle", !.outcome = "meError",
                                               !.received = Received(resp, localStorage)]
             /\ location' = onFinish("rejected", ResponseInterceptorRedirect(resp, location))
             /\ UNCHANGED authStore
    /\ http' = Answered(http, i)
    /\ UNCHANGED user_sessions

\* Layout.handleUserMenuClick('logout'): logout() posts /auth/logout and
\* the browser goes to /login.
LogoutClick ==
    /\ authStore.isAuthenticated
    /\ location \notin {"/login", "/register"}
    /\ mutations.logout = "idle"
    /\ http' = ApiSend(http, "logout", localStorage)
    /\ mutations' = [mutations EXCEPT !.logout = "pending"]
    /\ location' = "/login"
    /\ UNCHANGED <<localStorage, authStore, user_sessions>>

\* The JWTs a header presents.
Presented(header) ==
    IF header.scheme = "Bearer" /\ header.token.kind = "jwt"
    THEN {header.token.jti} ELSE {}

\* POST /auth/logout is answered: the backend revokes the session, or the
\* request fails before it does; logoutMutation.onSuccess and onError both
\* call logout() of the store.
LogoutSettle(i, resp) ==
    /\ IF Is2xx(resp)
       THEN UNCHANGED <<localStorage, location>>
       ELSE /\ localStorage' = ResponseInterceptor(resp, localStorage)
            /\ location' = ResponseInterceptorRedirect(resp, location)
    /\ authStore' = StoreLogout
    /\ mutations' = [mutations EXCEPT
          !.logout = "idle",
          !.loggedOut = @ \cup Presented(http[i].Authorization),
          !.received = Received(resp, localStorage)]
    /\ http' = Answered(http, i)

LogoutAnswer(i) ==
    /\ i \in InFlight("logout")
    /\ LET header == http[i].Authorization IN
       \/ /\ Accepts(user_sessions, header)
          /\ user_sessions' = Revoke(user_sessions, header)
          /\ LogoutSettle(i, Envelope(200, 0, Null))
       \/ /\ \E resp \in {Envelope(500, 5000, Null), NoResponse} : LogoutSettle(i, resp)
          /\ UNCHANGED user_sessions
       \/ /\ ~Accepts(user_sessions, header)
          /\ LogoutSettle(i, Envelope(401, 1001, Null))
          /\ UNCHANGED user_sessions

\* ErrorLogsPage.handleApiError, the onError of the page's queries and
\* mutations: where the browser is after it.
handleApiError(resp, path) ==
    IF resp.status = 401 THEN "/login" ELSE path

\* The answers the backend can give to a request of a page.
OtherAnswers(accepted) ==
    IF accepted
    THEN {Envelope(200, 0, Null), Envelope(500, 5000, Null), NoResponse}
    ELSE {Envelope(401, 1001, Null)}

\* A page sends another request through ApiService.
OtherSend ==
    /\ InFlight("other") = {}
    /\ http' = ApiSend(http, "other", localStorage)
    /\ UNCHANGED <<localStorage, authStore, location, mutations, user_sessions>>

\* The backend answers it, with 401 when the request is not
\* authenticated; an error passes the response interceptor and reaches
\* the page's onError.
OtherAnswer(i) ==
    /\ i \in InFlight("other")
    /\ \E resp \in OtherAnswers(Accepts(user_sessions, http[i].Authorization)) :
         /\ IF Is2xx(resp)
            THEN UNCHANGED <<localStorage, location>>
            ELSE /\ localStorage' = ResponseInterceptor(resp, localStorage)
                 /\ location' = handleApiError(resp,
                                    ResponseInterceptorRedirect(resp, location))
         /\ mutations' = [mutations EXCEPT !.received = Received(resp, localStorage)]
    /\ http' = Answered(http, i)
    /\ UNCHANGED <<authStore, user_sessions>>

\* The validity period of a session ends.
Expire ==
    /\ \E s \in user_sessions :
          /\ ~s.expired
          /\ user_sessions' = (user_sessions \ {s}) \cup {[s EXCEPT !.expired = TRUE]}
    /\ UNCHANGED <<localStorage, authStore, location, mutations, http>>

NextAuth ==
    \/ LoginOnFinish /\ UNCHANGED <<workflowVars, tableVars, chat>>
    \/ \E i \in 1..Len(http) : LoginAnswer(i) /\ UNCHANGED <<workflowVars, tableVars, chat>>
    \/ \E i \in 1..Len(http) : MeAnswer(i) /\ UNCHANGED <<workflowVars, tableVars, chat>>
    \/ LogoutClick /\ UNCHANGED <<workflowVars, tableVars, chat>>
    \/ \E i \in 1..Len(http) : LogoutAnswer(i) /\ UNCHANGED <<workflowVars, tableVars, chat>>
    \/ OtherSend /\ UNCHANGED <<workflowVars, tableVars, chat>>
    \/ \E i \in 1..Len(http) : OtherAnswer(i) /\ UNCHANGED <<workflowVars, tableVars, chat>>
    \/ Expire /\ UNCHANGED <<workflowVars, tableVars, chat>>

SpecAuth == Init /\ [][NextAuth]_vars

(***************************************************************************)
(* The tables of sql/init.sql under arbitrary inserts and deletes: the      *)
(* foreign keys and ON DELETE CASCADE.                                      *)
(***************************************************************************)
MaxRows == 5          \* rows inserted in one behaviour, over all tables

PrimaryKeys(rows) == {row.id : row \in rows}

\* FOREIGN KEY (col) REFERENCES parent(id): the insert is accepted when the
\* referenced row exists.
ForeignKey(parents, ref) == ref \in PrimaryKeys(parents)

\* A foreign key that leaves the referencing rows in place.
OnDeleteNoAction(rows, col, parents) == rows

\* ON DELETE CASCADE: the rows of the referencing table that remain when
\* only `parents` remain in the referenced table.
OnDeleteCascade(rows, col, parents) == {row \in rows : row[col] \in PrimaryKeys(parents)}

ErrorLogRow(id, user_id) ==
    [id |-> id, user_id |-> user_id, difficulty |-> "medium", status |-> "unresolved"]

ConversationRow(id, user_id) ==
    [id |-> id, user_id |-> user_id, is_active |-> TRUE]

MessageRow(id, conversation_id, role, content) ==
    [id |-> id, conversation_id |-> conversation_id, role |-> role,
     content |-> content, content_type |-> "text"]

\* Rows inserted so far: what the AUTO_INCREMENT counters have handed out.
Inserted ==
    (nextPlanId - AutoIncrementStart)
    + (autoIncrement.users - AutoIncrementStart)
    + (autoIncrement.study_tasks - AutoIncrementStart)
    + (autoIncrement.error_logs - AutoIncrementStart)
    + (autoIncrement.conversations - AutoIncrementStart)
    + (autoIncrement.messages - AutoIncrementStart)
    + (autoIncrement.user_sessions - AutoIncrementStart)

\* The value of AUTO_INCREMENT for the next row of a table.
Bump(table) == [autoIncrement EXCEPT ![table] = @ + 1]

InsertUser ==
    /\ Inserted < MaxRows
    /\ users' = users \cup {UserRow(autoIncrement.users)}
    /\ autoIncrement' = Bump("users")
    /\ UNCHANGED <<study_plans, study_tasks, nextPlanId, error_logs,
                   conversations, messages, user_sessions>>

InsertStudyPlan(user_id) ==
    /\ Inserted < MaxRows
    /\ ForeignKey(users, user_id)
    /\ study_plans' = study_plans \cup
          {StudyPlanRow(nextPlanId, [user_id |-> user_id, title |-> "Plan"])}
    /\ nextPlanId' = nextPlanId + 1
    /\ UNCHANGED <<users, study_tasks, error_logs, conversations, messages,
                   user_sessions, autoIncrement>>

InsertStudyTask(plan_id) ==
    /\ Inserted < MaxRows
    /\ ForeignKey(study_plans, plan_id)
    /\ study_tasks' = study_tasks \cup
          {StudyTaskRow(plan_id, autoIncrement.study_tasks, "Task")}
    /\ autoIncrement' = Bump("study_tasks")
    /\ UNCHANGED <<users, study_plans, nextPlanId, error_logs, conversations,
                   messages, user_sessions>>

InsertErrorLog(user_id) ==
    /\ Inserted < MaxRows
    /\ ForeignKey(users, user_id)
    /\ error_logs' = error_logs \cup {ErrorLogRow(autoIncrement.error_logs, user_id)}
    /\ autoIncrement' = Bump("error_logs")
    /\ UNCHANGED <<users, study_plans, study_tasks, nextPlanId, conversations,
                   messages, user_sessions>>

InsertConversation(user_id) ==
    /\ Inserted < MaxRows
    /\ ForeignKey(users, user_id)
    /\ conversations' = conversations \cup
          {ConversationRow(autoIncrement.conversations, user_id)}
    /\ autoIncrement' = Bump("conversations")
    /\ UNCHANGED <<users, study_plans, study_tasks, nextPlanId, error_logs,
                   messages, user_sessions>>

InsertMessage(conversation_id) ==
    /\ Inserted < MaxRows
    /\ ForeignKey(conversations, conversation_id)
    /\ \E role \in {"user", "assistant"} :
          messages' = messages \cup
             {MessageRow(autoIncrement.messages, conversation_id, role, "q1")}
    /\ autoIncrement' = Bump("messages")
    /\ UNCHANGED <<users, study_plans, study_tasks, nextPlanId, error_logs,
                   conversations, user_sessions>>

InsertUserSession(user_id) ==
    /\ Inserted < MaxRows
    /\ ForeignKey(users, user_id)
    /\ user_sessions' = user_sessions \cup
          {UserSessionRow(autoIncrement.user_sessions, user_id)}
    /\ autoIncrement' = Bump("user_sessions")
    /\ UNCHANGED <<users, study_plans, study_tasks, nextPlanId, error_logs,
                   conversations, messages>>

\* DELETE FROM users WHERE id = ...: the delete cascades to the five
\* tables that reference users, and from study_plans and conversations on
\* to study_tasks and messages.
DeleteUser(row) ==
    /\ row \in users
    /\ users' = users \ {row}
    /\ study_plans' = OnDeleteCascade(study_plans, "user_id", users')
    /\ study_tasks' = OnDeleteCascade(study_tasks, "plan_id", study_plans')
    /\ error_logs' = OnDeleteCascade(error_logs, "user_id", users')
    /\ conversations' = OnDeleteCascade(conversations, "user_id", users')
    /\ messages' = OnDeleteCascade(messages, "conversation_id", conversations')
    /\ user_sessions' = OnDeleteCascade(user_sessions, "user_id", users')
    /\ UNCHANGED <<nextPlanId, autoIncrement>>

DeleteStudyPlan(row) ==
    /\ row \in study_plans
    /\ study_plans' = study_plans \ {row}
    /\ study_tasks' = OnDeleteCascade(study_tasks, "plan_id", study_plans')
    /\ UNCHANGED <<users, error_logs, conversations, messages, user_sessions,
                   nextPlanId, autoIncrement>>

DeleteConversation(row) ==
    /\ row \in conversations
    /\ conversations' = conversations \ {row}
    /\ messages' = OnDeleteCascade(messages, "conversation_id", conversations')
    /\ UNCHANGED <<users, study_plans, study_tasks, error_logs, user_sessions,
                   nextPlanId, autoIncrement>>

\* DELETE of a row of a table nothing references.
DeleteRow(row) ==
    /\ \/ /\ row \in study_tasks
          /\ study_tasks' = study_tasks \ {row}
          /\ UNCHANGED <<error_logs, messages, user_sessions>>
       \/ /\ row \in error_logs
          /\ error_logs' = error_logs \ {row}
          /\ UNCHANGED <<study_tasks, messages, user_sessions>>
       \/ /\ row \in messages
          /\ messages' = messages \ {row}
          /\ UNCHANGED <<study_tasks, error_logs, user_sessions>>
       \/ /\ row \in user_sessions
          /\ user_sessions' = user_sessions \ {row}
          /\ UNCHANGED <<study_tasks, error_logs, messages>>
    /\ UNCHANGED <<users, study_plans, conversations, nextPlanId, autoIncrement>>

\* The state the statements do not touch.
ClientVars == <<requests, page, submitted, localStorage, authStore, location,
                mutations, http, chat>>

\* An empty database, as init.sql leaves it.
InitDb ==
    /\ requests = <<>>
    /\ study_plans = {}
    /\ study_tasks = {}
    /\ nextPlanId = AutoIncrementStart
    /\ page = [loading |-> FALSE, result |-> Null, lastParams |-> Null,
               values |-> initialValues, toasts |-> <<>>, req |-> 0,
               sub |-> 0]
    /\ submitted = 0
    /\ localStorage = NoTokens
    /\ authStore = LoggedOut
    /\ location = "/login"
    /\ mutations = [login |-> "idle", access_token |-> Null, outcome |-> "none",
                    logout |-> "idle", loggedOut |-> {},
                    received |-> NoneReceived,
                    register |-> "idle", registers |-> 0, registered |-> "none"]
    /\ http = <<>>
    /\ user_sessions = {}
    /\ users = {}
    /\ error_logs = {}
    /\ conversations = {}
    /\ messages = {}
    /\ autoIncrement = [users |-> AutoIncrementStart,
                        study_tasks |-> AutoIncrementStart,
                        error_logs |-> AutoIncrementStart,
                        conversations |-> AutoIncrementStart,
                        messages |-> AutoIncrementStart,
                        user_sessions |-> AutoIncrementStart]
    /\ chat = NoChat

NextDb ==
    \/ InsertUser /\ UNCHANGED ClientVars
    \/ \E ref \in 1..autoIncrement.users : InsertStudyPlan(ref) /\ UNCHANGED ClientVars
    \/ \E ref \in 1..nextPlanId : InsertStudyTask(ref) /\ UNCHANGED ClientVars
    \/ \E ref \in 1..autoIncrement.users : InsertErrorLog(ref) /\ UNCHANGED ClientVars
    \/ \E ref \in 1..autoIncrement.users : InsertConversation(ref) /\ UNCHANGED ClientVars
    \/ \E ref \in 1..autoIncrement.conversations : InsertMessage(ref) /\ UNCHANGED ClientVars
    \/ \E ref \in 1..autoIncrement.users : InsertUserSession(ref) /\ UNCHANGED ClientVars
    \/ \E row \in users : DeleteUser(row) /\ UNCHANGED ClientVars
    \/ \E row \in study_plans : DeleteStudyPlan(row) /\ UNCHANGED ClientVars
    \/ \E row \in conversations : DeleteConversation(row) /\ UNCHANGED ClientVars
    \/ \E row \in study_tasks \cup error_logs \cup messages \cup user_sessions :
          DeleteRow(row) /\ UNCHANGED ClientVars

SpecDb == InitDb /\ [][NextDb]_vars

(***************************************************************************)
(* ConversationsPage: handleSendMessage and sendMessageMutation, with the   *)
(* backend storing the messages of a conversation.                          *)
(***************************************************************************)
MaxSends == 2         \* calls of handleSendMessage in one behaviour

\* What the user can type into the message box.
Typed == {"q1", "q2", " "}

\* newMessage.trim()
Trim(text) == IF text = " " THEN "" ELSE text

\* The content of the simulated reply to a message.
AssistantReply(content) == "reply:" \o content

\* One call of handleSendMessage: the message captured by its closure, the
\* request it has in flight, and what happened to it so far.
Send(content, conversation_id, header) ==
    [content |-> content, conversation_id |-> conversation_id,
     phase |-> "user",            \* user, timer, reply, done, rejected
     Authorization |-> header,
     stored |-> FALSE,            \* the backend stored the user message
     answer |-> NoResponse,       \* the answer to the user message's POST
     posted |-> FALSE]            \* the POST of the reply was sent

\* The page is mounted; window.location.href = '/login' unloads it.
Mounted == location = "/conversations"

\* The user edits the message box.
ChatType(text) ==
    /\ Mounted
    /\ text # chat.newMessage
    /\ chat' = [chat EXCEPT !.newMessage = text]
    /\ UNCHANGED <<messages, autoIncrement, localStorage, location>>

\* handleSendMessage up to its await: Enter in the TextArea or a click on
\* the button.
HandleSendMessage ==
    /\ Mounted
    /\ Len(chat.sends) < MaxSends
    /\ Trim(chat.newMessage) # ""
    /\ chat.selectedConversation # Null
    /\ LET config == RequestInterceptor(Config("message"), localStorage) IN
       chat' = [chat EXCEPT
          !.isSending = TRUE,
          !.sends = Append(@, Send(chat.newMessage, chat.selectedConversation.id,
                                   config.Authorization))]
    /\ UNCHANGED <<messages, autoIncrement, localStorage, location>>

\* The answers of POST /conversations/{id}/messages when the backend does
\* not store the message.
MessageRefusals(accepted) ==
    IF accepted
    THEN {Envelope(200, 1001, Null), Envelope(500, 5000, Null), NoResponse}
    ELSE {Envelope(401, 1001, Null)}

\* sendMessageMutation.onSuccess / onError for the request of send n, and
\* the continuation of handleSendMessage when it was awaited.
MessageSettle(n, resp, stored) ==
    LET role == chat.sends[n].phase
        seen == IF role = "user"
                THEN [chat EXCEPT !.sends[n].stored = stored, !.sends[n].answer = resp]
                ELSE chat
    IN  IF ~Mounted
        THEN /\ chat' = [seen EXCEPT !.sends[n].phase = "rejected"]
             /\ UNCHANGED <<localStorage, location>>
        ELSE IF Is2xx(resp)
        THEN /\ chat' = [seen EXCEPT
                   !.newMessage = "", !.isSending = FALSE,
                   !.sends[n].phase = IF role = "user" THEN "timer" ELSE "done"]
             /\ UNCHANGED <<localStorage, location>>
        ELSE /\ chat' = [seen EXCEPT !.isSending = FALSE,
                                     !.sends[n].phase = "rejected"]
             /\ localStorage' = ResponseInterceptor(resp, localStorage)
             /\ location' = ResponseInterceptorRedirect(resp, location)

\* The backend handles the POST of send n (the user message, or the reply)
\* and the page handles the answer.
MessageAnswer(n) ==
    /\ chat.sends[n].phase \in {"user", "reply"}
    /\ LET send == chat.sends[n]
           content == IF send.phase = "user" THEN send.content
                      ELSE AssistantReply(send.content)
           role == IF send.phase = "user" THEN "user" ELSE "assistant"
           accepted == Accepts(user_sessions, send.Authorization)
       IN \/ /\ accepted
             /\ ForeignKey(conversations, send.conversation_id)
             /\ messages' = messages \cup
                   {MessageRow(autoIncrement.messages, send.conversation_id,
                               role, content)}
             /\ autoIncrement' = Bump("messages")
             /\ \E resp \in {Envelope(200, 0, Null), NoResponse} :
                   MessageSettle(n, resp, TRUE)
          \/ /\ UNCHANGED <<messages, autoIncrement>>
             /\ \E resp \in MessageRefusals(accepted) : MessageSettle(n, resp, FALSE)

\* The setTimeout of handleSendMessage fires: the reply is posted with
\* sendMessageMutation.mutate.
TimerFires(n) ==
    /\ Mounted
    /\ chat.sends[n].phase = "timer"
    /\ LET config == RequestInterceptor(Config("message"), localStorage) IN
       chat' = [chat EXCEPT
          !.sends[n].phase = "reply",
          !.sends[n].posted = TRUE,
          !.sends[n].Authorization = config.Authorization]
    /\ UNCHANGED <<messages, autoIncrement, localStorage, location>>

\* What the chat page and its requests leave alone.
ChatFrame ==
    UNCHANGED <<workflowVars, authStore, mutations, http, user_sessions,
                users, error_logs, conversations>>

\* The user is logged in and has opened a conversation on the page.
InitChat ==
    /\ requests = <<>>
    /\ study_plans = {}
    /\ study_tasks = {}
    /\ nextPlanId = AutoIncrementStart
    /\ page = [loading |-> FALSE, result |-> Null, lastParams |-> Null,
               values |-> initialValues, toasts |-> <<>>, req |-> 0,
               sub |-> 0]
    /\ submitted = 0
    /\ localStorage = [access_token |-> Jwt(1), refresh_token |-> RefreshToken(1)]
    /\ authStore = StoreLogin(UserData, Jwt(1))
    /\ location = "/conversations"
    /\ mutations = [login |-> "idle", access_token |-> Jwt(1), outcome |-> "success",
                    logout |-> "idle", loggedOut |-> {},
                    received |-> NoneReceived,
                    register |-> "idle", registers |-> 0, registered |-> "none"]
    /\ http = <<>>
    /\ user_sessions = {UserSessionRow(1, PageUser)}
    /\ users = {UserRow(PageUser), UserRow(ApiUser)}
    /\ error_logs = {}
    /\ conversations = {ConversationRow(1, PageUser)}
    /\ messages = {}
    /\ autoIncrement = [users |-> 3, study_tasks |-> AutoIncrementStart,
                        error_logs |-> AutoIncrementStart,
                        conversations |-> 2,
                        messages |-> AutoIncrementStart,
                        user_sessions |-> 2]
    /\ chat = [NoChat EXCEPT !.selectedConversation = ConversationRow(1, PageUser)]

NextChat ==
    \/ \E text \in Typed \cup {""} : ChatType(text) /\ ChatFrame
    \/ HandleSendMessage /\ ChatFrame
    \/ \E n \in 1..Len(chat.sends) : MessageAnswer(n) /\ ChatFrame
    \/ \E n \in 1..Len(chat.sends) : TimerFires(n) /\ ChatFrame
    \/ Expire /\ UNCHANGED <<workflowVars, tableVars, chat>>

SpecChat == InitChat /\ [][NextChat]_vars

(***************************************************************************)
(* RegisterPage and registerMutation of useAuth.                            *)
(***************************************************************************)
MaxRegisters == 3     \* submissions of the register form in one behaviour

\* RegisterPage.onFinish: where the browser is after register(values) was
\* called, and after the request was answered.  register is
\* registerMutation.mutate, which returns undefined at once, so the await
\* does not wait for the request and navigate('/login') runs next.
RegisterPageOnFinish(phase, path) ==
    IF phase = "called" THEN "/login" ELSE path

\* <Link to="/register"> of LoginPage.
GoToRegister ==
    /\ location = "/login"
    /\ location' = "/register"
    /\ UNCHANGED <<localStorage, authStore, mutations, http, user_sessions,
                   users, autoIncrement>>

\* The register form is submitted.
RegisterOnFinish ==
    /\ location = "/register"
    /\ mutations.registers < MaxRegisters
    /\ http' = ApiSend(http, "register", localStorage)
    /\ mutations' = [mutations EXCEPT !.register = "pending", !.registers = @ + 1,
                                      !.registered = "none"]
    /\ location' = RegisterPageOnFinish("called", location)
    /\ UNCHANGED <<localStorage, authStore, user_sessions, users, autoIncrement>>

\* The answers of POST /auth/register when no user is created.
RegisterFailures ==
    {Envelope(200, 1001, Null), Envelope(400, 1001, Null),
     Envelope(500, 5000, Null), NoResponse}

\* registerMutation.onSuccess / onError, and what is left of onFinish.
RegisterSettle(i, resp) ==
    /\ IF Is2xx(resp)
       THEN /\ location' = RegisterPageOnFinish("resolved", location)
            /\ UNCHANGED localStorage
       ELSE /\ localStorage' = ResponseInterceptor(resp, localStorage)
            /\ location' = RegisterPageOnFinish("rejected",
                              ResponseInterceptorRedirect(resp, location))
    /\ mutations' = [mutations EXCEPT
          !.register = IF Cardinality(InFlight("register")) > 1 THEN "pending" ELSE "idle",
          !.registered = IF Is2xx(resp) /\ resp.code = 0 THEN "success"
                         ELSE IF Is2xx(resp) THEN "code" ELSE "error",
          !.received = Received(resp, localStorage)]
    /\ http' = Answered(http, i)

\* POST /auth/register is answered: the backend creates the user, or not.
RegisterAnswer(i) ==
    /\ i \in InFlight("register")
    /\ \/ /\ users' = users \cup {UserRow(autoIncrement.users)}
          /\ autoIncrement' = Bump("users")
          /\ RegisterSettle(i, Envelope(200, 0, UserData))
       \/ /\ UNCHANGED <<users, autoIncrement>>
          /\ \E resp \in RegisterFailures : RegisterSettle(i, resp)
    /\ UNCHANGED <<authStore, user_sessions>>

\* What registration leaves alone.
RegisterFrame ==
    UNCHANGED <<workflowVars, error_logs, conversations, messages, chat>>

NextRegister ==
    \/ GoToRegister /\ RegisterFrame
    \/ RegisterOnFinish /\ RegisterFrame
    \/ \E i \in 1..Len(http) : RegisterAnswer(i) /\ RegisterFrame

SpecRegister == Init /\ [][NextRegister]_vars

(***************************************************************************)
(* Properties.                                                             *)
(***************************************************************************)
Ids == 1..Len(requests)

\* The committed rows of request r: its study_plans row and its tasks.
PlanRowsOf(r) == {p \in study_plans : p.id \in requests[r].rowId}
TaskRowsOf(r) == {t \in study_tasks : t.plan_id \in requests[r].rowId}

\* Request r was rejected by validation: Failed(ValidationError), reported
\* in the envelope with the validation code.
RejectedByValidation(r) ==
    /\ requests[r].state = "Failed"
    /\ requests[r].reason = "ValidationError"
    /\ requests[r].response # Null
    /\ requests[r].response.code = ErrorCode("ValidationError")

\* C1 in the backend: a request whose weekly hours lie outside [1,80] never
\* leaves validation except as rejected, and no call to the vendor is made for it.
C1_HoursRejectedBeforeCall ==
    \A r \in Ids :
        LET h == requests[r].payload.study_hours_per_week IN
        (h < 1 \/ h > 80) =>
            /\ requests[r].vendorCalls = 0
            /\ requests[r].state \in {"Validating", "Failed"}
            /\ requests[r].state = "Failed" => RejectedByValidation(r)

\* The last click on the page was rejected by the form: no POST is awaited
\* and the error is shown.
RejectedByForm ==
    /\ ~page.loading
    /\ page.req = 0
    /\ page.toasts \in {<<>>, <<Toast("error", DefaultError)>>}

\* C1 on the page: the form never submits hours outside [1,80].
C1_PageHoursInRange ==
    (page.values.study_hours_per_week < 1 \/ page.values.study_hours_per_week > 80)
        => RejectedByForm

\* C1: weekly hours outside [1,80] are rejected before any call: the page
\* posts no such request, and the backend calls no vendor for one.
C1_OutOfRangeHoursNoCall == C1_HoursRejectedBeforeCall /\ C1_PageHoursInRange

C1_Witness ==
    \E r, q \in Ids :
        /\ requests[r].payload.study_hours_per_week = 81
        /\ requests[q].payload.study_hours_per_week = 0
        /\ RejectedByValidation(r) /\ RejectedByValidation(q)
        /\ page.values.study_hours_per_week = NoValue
        /\ page.toasts = <<Toast("error", DefaultError)>>

Rank(st) ==
    CASE st = "Validating" -> 1
      [] st = "CallingAI" -> 2
      [] st = "Parsing" -> 3
      [] st = "Persisting" -> 4
      [] st = "Done" -> 5
      [] st = "Failed" -> 6

\* C3: a request only moves to the next state of Validating, Calling-AI,
\* Parsing, Persisting, Done, or to Failed; Done and Failed are never left.
C3_ForwardOnly ==
    [][\A r \in Ids :
          LET a == requests[r].state
              b == requests'[r].state
          IN /\ r <= Len(requests')
             /\ a # b =>
                  /\ a \notin {"Done", "Failed"}
                  /\ b = "Failed" \/ Rank(b) = Rank(a) + 1]_vars

C3_Witness ==
    \E r, q \in Ids :
        /\ requests[r].state = "Done"
        /\ requests[q].state = "Failed" /\ requests[q].reason = "UnparseableResponseError"

\* C4: the committed tables hold, for each request, either its study_plans
\* row with every task row of its plan (the request is Done) or no row at
\* all; a failed request carries an error response; no row is an orphan.
C4_NeverPartiallyPersisted ==
    /\ \A r \in Ids :
        IF requests[r].state = "Done"
        THEN /\ Cardinality(PlanRowsOf(r)) = 1
             /\ Cardinality(TaskRowsOf(r)) = TaskCount(requests[r].plan)
        ELSE /\ PlanRowsOf(r) = {}
             /\ TaskRowsOf(r) = {}
             /\ requests[r].state = "Failed" =>
                    requests[r].response # Null /\ requests[r].response.code # 0
    /\ \A p \in study_plans : \E r \in Ids : p.id \in requests[r].rowId
    /\ \A t \in study_tasks : \E p \in study_plans : p.id = t.plan_id

C4_Witness ==
    \E r, q \in Ids :
        /\ requests[r].state = "Failed" /\ requests[r].reason = "PersistenceError"
        /\ requests[r].rowId # None /\ TaskCount(requests[r].plan) = 2
        /\ requests[q].state = "Done" /\ TaskCount(requests[q].plan) = 2

\* C5: a vendor payload that is not JSON, lacks title or weeks, or has a
\* week with week_number <= 0 ends in Failed(UnparseableResponseError); the
\* persister is not invoked and no row is created.
BadVendorPayload(raw) ==
    \/ raw.kind # "json"
    \/ "title" \notin DOMAIN raw
    \/ "weeks" \notin DOMAIN raw
    \/ \E i \in 1..Len(raw.weeks) : raw.weeks[i].week_number <= 0

C5_UnparseableNotPersisted ==
    \A r \in Ids :
        (requests[r].raw # Null /\ BadVendorPayload(requests[r].raw)) =>
            /\ requests[r].state \in {"Parsing", "Failed"}
            /\ requests[r].state = "Failed" =>
                 /\ requests[r].reason = "UnparseableResponseError"
                 /\ requests[r].response.code = ErrorCode("UnparseableResponseError")
            /\ requests[r].persistCalls = 0
            /\ requests[r].rowId = None
            /\ PlanRowsOf(r) = {}

C5_Witness ==
    \E r, q \in Ids :
        /\ requests[r].raw = NotJson
        /\ requests[r].state = "Failed"
        /\ requests[q].state = "Failed"
        /\ requests[q].raw # Null /\ requests[q].raw.kind = "json"
        /\ "title" \in DOMAIN requests[q].raw /\ "weeks" \in DOMAIN requests[q].raw
        /\ Len(requests[q].raw.weeks) = 2
        /\ requests[q].raw.weeks[2].week_number = 0

\* C6: when the vendor call ends in a timeout, a network error or a non-2xx
\* status, the request fails with the UpstreamServiceError code and data
\* null, and no study_plans row is created for it.
C6_UpstreamFailureEnvelope ==
    \A r \in Ids :
        requests[r].vendor \in {"timeout", "network", "non2xx"} =>
            /\ requests[r].state = "Failed"
            /\ requests[r].response # Null
            /\ requests[r].response.code = ErrorCode("UpstreamServiceError")
            /\ requests[r].response.data = Null
            /\ requests[r].rowId = None
            /\ PlanRowsOf(r) = {}
            /\ Cardinality(study_plans) =
                   Cardinality({q \in Ids : requests[q].state = "Done"})

C6_Witness ==
    \E r \in Ids :
        /\ requests[r].vendor = "timeout"
        /\ requests[r].origin = "page"
        /\ requests[r].response.status = 502
        /\ page.sub = requests[r].sub
        /\ page.toasts = <<Toast("error", "upstream")>>

\* The outcome of a finished request: the failure kind, or Done.
Outcome(r) == IF requests[r].state = "Done" THEN "Done" ELSE requests[r].reason

\* C7: every failure is answered in the envelope {code, message, data} with
\* a non-zero code; two finished requests carry the same code exactly when
\* they ended the same way, so the five failure kinds and success have
\* pairwise distinct codes and a bad API key is not reported as a transient
\* upstream failure.
C7_DistinctCodes ==
    \A r, q \in Ids :
        (requests[r].response # Null /\ requests[q].response # Null) =>
            /\ DOMAIN Body(requests[r].response) = {"code", "message", "data"}
            /\ (requests[r].response.code = 0) <=> (requests[r].state = "Done")
            /\ requests[r].state = "Failed" => requests[r].reason \in FailureKinds
            /\ (requests[r].response.code = requests[q].response.code)
                   <=> (Outcome(r) = Outcome(q))
            /\ (requests[r].vendor = "auth" /\ requests[q].vendor \in {"timeout", "network", "non2xx"})
                   => requests[r].response.code # requests[q].response.code

C7_Witness ==
    \E r, q \in Ids :
        /\ requests[r].vendor = "auth" /\ requests[r].response # Null
        /\ requests[q].vendor = "timeout" /\ requests[q].response # Null

ShownOnPage(r) ==
    /\ requests[r].origin = "page"
    /\ requests[r].response # Null
    /\ page.sub = requests[r].sub
    /\ ~page.loading
    /\ Truthy(page.result)
    /\ page.toasts # <<Toast("error", DefaultError)>>

GenerationFailures ==
    {"ValidationError", "UpstreamServiceError", "UpstreamAuthError",
     "UnparseableResponseError"}

\* C9: after a storage failure the response carries a persistence code that
\* differs from every generation failure's and the generated plan, and the
\* page shows that plan (title, objectives, weeks) without a saved-plan id.
C9_UnsavedPlanShown ==
    \A r \in Ids :
        (requests[r].state = "Failed" /\ requests[r].reason = "PersistenceError") =>
            /\ \A k \in GenerationFailures : requests[r].response.code # ErrorCode(k)
            /\ requests[r].response.code # 0
            /\ requests[r].response.data = PlanData(requests[r].plan, None)
            /\ ShownOnPage(r) =>
                 renderPlan =
                    [view |-> "plan",
                     title |-> requests[r].plan.title,
                     objectives |-> requests[r].plan.objectives,
                     weeks |-> PlanData(requests[r].plan, None).weekly_schedule,
                     saved |-> None]

\* C10: a request that is Done answers with code 0 and a saved_plan_id > 0
\* that is the id of exactly one study_plans row, created by this request
\* alone, owned by the requesting user and flagged AI-generated; there is
\* one row per request that is Done.
C10_DoneHasOneOwnedRow ==
    /\ \A r \in Ids :
        requests[r].state = "Done" =>
            /\ requests[r].response.code = 0
            /\ Cardinality(requests[r].response.data.saved_plan_id) = 1
            /\ \A id \in requests[r].response.data.saved_plan_id :
                 /\ id > 0
                 /\ id \in requests[r].rowId
                 /\ \A q \in Ids : id \in requests[q].rowId => q = r
                 /\ Cardinality({p \in study_plans : p.id = id}) = 1
                 /\ \A p \in study_plans :
                        p.id = id => p.user_id = requests[r].user /\ p.is_ai_generated
    /\ Cardinality(study_plans) = Cardinality({r \in Ids : requests[r].state = "Done"})

C10_Witness ==
    \E r, q \in Ids :
        /\ r # q
        /\ requests[r].state = "Done" /\ requests[q].state = "Done"
        /\ requests[r].user # requests[q].user
        /\ requests[r].origin = "page"
        /\ ShownOnPage(r)
        /\ page.toasts = <<Toast("success", "generated"), Toast("success", "saved")>>

\* A syntactically valid vendor response with at least one week, all of
\* whose week numbers are at least 1.
WellFormed(raw) ==
    /\ raw.kind = "json"
    /\ {"title", "objectives", "weeks"} \subseteq DOMAIN raw
    /\ Len(raw.weeks) >= 1
    /\ \A i \in 1..Len(raw.weeks) : raw.weeks[i].week_number >= 1

\* C11: a well-formed vendor response parses (the request does not fail as
\* unparseable), the plan has the weeks of the response, as many and in the
\* same order, and so has the weekly_schedule of a successful answer.
C11_WellFormedParses ==
    \A r \in Ids :
        LET raw == requests[r].raw IN
        (raw # Null /\ WellFormed(raw) /\ requests[r].state # "Parsing") =>
            /\ requests[r].reason # "UnparseableResponseError"
            /\ Len(requests[r].plan.weeks) = Len(raw.weeks)
            /\ \A i \in 1..Len(raw.weeks) : requests[r].plan.weeks[i] = raw.weeks[i]
            /\ requests[r].state = "Done" =>
                 LET ws == requests[r].response.data.weekly_schedule IN
                 /\ Len(ws) = Len(raw.weeks)
                 /\ \A i \in 1..Len(raw.weeks) : ws[i].week = raw.weeks[i].week_number

C11_Witness ==
    \E r \in Ids :
        /\ requests[r].raw # Null /\ WellFormed(requests[r].raw)
        /\ Len(requests[r].raw.weeks) = 2
        /\ requests[r].raw.weeks[1].week_number = 2
        /\ requests[r].raw.weeks[2].week_number = 1
        /\ requests[r].state = "Done"

\* C12: for a request that is Done, the StudyPlan read back from its row has
\* as many objectives and as many weeks as the generated plan.
C12_RoundTripCounts ==
    \A r \in Ids :
        requests[r].state = "Done" =>
            \A id \in requests[r].rowId :
                LET read == getStudyPlan(study_plans, study_tasks, id) IN
                /\ Count(read, "objectives") = Len(requests[r].plan.objectives)
                /\ Count(read, "weeks") = Len(requests[r].plan.weeks)

\* C15: the week numbers of a parsed plan are positive and strictly
\* ascending in list order (hence pairwise distinct).
C15_WeekNumbersAscending ==
    \A r \in Ids :
        LET weeks == requests[r].plan.weeks IN
        /\ \A i \in 1..Len(weeks) : weeks[i].week_number >= 1
        /\ \A i, j \in 1..Len(weeks) :
              i < j => weeks[i].week_number < weeks[j].week_number

\* C13: a request cancelled before persistence completed is Failed, its
\* vendor call, if it was in flight, is aborted, persistence is skipped, and
\* the tables hold no row of it, neither its study_plans row nor a task.
C13_CancelledLeavesNoRow ==
    \A r \in Ids :
        requests[r].reason = "Cancelled" =>
            /\ requests[r].state = "Failed"
            /\ (requests[r].vendorCalls > 0 /\ requests[r].raw = Null)
                   => requests[r].vendor = "aborted"
            /\ requests[r].vendor \in {"", "aborted", "ok"}
            /\ requests[r].tx = NoTx
            /\ PlanRowsOf(r) = {}
            /\ TaskRowsOf(r) = {}
            /\ requests[r].response = Null

C13_Witness ==
    \E r \in Ids :
        /\ requests[r].reason = "Cancelled"
        /\ requests[r].rowId # None
        /\ TaskCount(requests[r].plan) = 2

\* What request r gives when it runs alone on the empty tables, with the
\* same body, the same answer of the vendor and the same fate of its
\* transaction: its terminal state, the code of its envelope and its row.
Alone(r) ==
    LET q == requests[r] IN
    IF ~Validates(q.payload)
    THEN [state |-> "Failed", code |-> ErrorCode("ValidationError"), rows |-> {}]
    ELSE IF q.vendor \in VendorFailures
    THEN [state |-> "Failed", code |-> ErrorCode(UpstreamKind(q.vendor)), rows |-> {}]
    ELSE IF ~Parses(q.raw)
    THEN [state |-> "Failed", code |-> ErrorCode("UnparseableResponseError"), rows |-> {}]
    ELSE IF q.reason = "PersistenceError"
    THEN [state |-> "Failed", code |-> ErrorCode("PersistenceError"), rows |-> {}]
    ELSE [state |-> "Done", code |-> SuccessCode,
          rows |-> {StudyPlanRow(AutoIncrementStart,
                        [user_id |-> q.user, title |-> ParsedPlan(q.raw).title,
                         is_ai_generated |-> TRUE])}]

Terminal(r) == requests[r].state \in {"Done", "Failed"}

\* A row without the id the table gave it.
WithoutId(row) == [f \in DOMAIN row \ {"id"} |-> row[f]]

\* C14 as stated: every finished request has the terminal state, the code
\* and the row it has when it runs alone.
C14_SameAsAlone ==
    \A r \in Ids :
        Terminal(r) =>
            /\ requests[r].state = Alone(r).state
            /\ requests[r].response.code = Alone(r).code
            /\ PlanRowsOf(r) = Alone(r).rows

\* C14 amended: every finished request has the terminal state and the code
\* it has when it runs alone, and its row is the same except for the id,
\* which comes from the AUTO_INCREMENT counter the requests share and is
\* the id of no other request's row; every row belongs to one request.
C14_SameAsAloneUpToId ==
    /\ \A r \in Ids :
        Terminal(r) =>
            /\ requests[r].state = Alone(r).state
            /\ requests[r].response.code = Alone(r).code
            /\ {WithoutId(p) : p \in PlanRowsOf(r)} = {WithoutId(p) : p \in Alone(r).rows}
            /\ Cardinality(PlanRowsOf(r)) = Cardinality(Alone(r).rows)
            /\ Cardinality(TaskRowsOf(r)) =
                  IF requests[r].state = "Done" THEN TaskCount(requests[r].plan) ELSE 0
    /\ \A r, q \in Ids : (r # q) => requests[r].rowId \cap requests[q].rowId = {}
    /\ \A p \in study_plans : \E r \in Ids : p \in PlanRowsOf(r)
    /\ \A r \in Ids : \A id \in requests[r].rowId : id < nextPlanId

C14_Witness ==
    \E r, q \in Ids :
        /\ r < q
        /\ requests[r].state = "Done" /\ requests[q].state = "Done"
        /\ requests[q].rowId = Some(AutoIncrementStart)
        /\ requests[r].rowId = Some(AutoIncrementStart + 1)

\* C16: a request sent through ApiService while localStorage holds an
\* access_token carries Authorization: Bearer <that token>, the one stored
\* when the request was sent; a request sent while none is stored carries
\* no Authorization header.
C16_BearerOfStoredToken ==
    \A i \in 1..Len(http) :
        IF http[i].stored # Null
        THEN http[i].Authorization = Bearer(http[i].stored)
        ELSE http[i].Authorization = NoHeader

C16_Witness ==
    \E i, j \in 1..Len(http) :
        /\ http[i].kind = "logout" /\ http[i].stored = Jwt(1)
        /\ http[i].Authorization = Bearer(Jwt(1))
        /\ http[j].kind = "me" /\ http[j].stored = Jwt(2)
        /\ http[j].Authorization = Bearer(Jwt(2))

\* C17: once the user has logged out, the session of the JWT that was in
\* use is revoked (the JWT is on the blacklist), and while it has not
\* expired a request presenting that JWT is refused.
C17_LoggedOutJwtRefused ==
    \A n \in mutations.loggedOut :
        /\ \A s \in user_sessions : (s.token_jti = n /\ ~s.expired) => s.is_revoked
        /\ ~Accepts(user_sessions, Bearer(Jwt(n)))

\* C20: the browser goes from the login page to /dashboard only when the
\* login and the current-user fetch are no longer pending, and after a
\* successful login only with the user and the access token in the store.
C20_NavigateAfterStore ==
    [][(location = "/login" /\ location' = "/dashboard") =>
          /\ mutations'.login = "idle"
          /\ \A i \in 1..Len(http') : http'[i].kind \notin {"login", "me"}
          /\ mutations'.outcome = "success" =>
                /\ authStore'.isAuthenticated
                /\ authStore'.user = UserData
                /\ authStore'.token # Null
                /\ authStore'.token = mutations'.access_token]_vars

C20_Witness ==
    /\ location = "/dashboard"
    /\ mutations.outcome = "success"
    /\ authStore.user = UserData
    /\ authStore.token = Jwt(2)

\* Every row references an existing row of the table its foreign key names.
ReferencesExist ==
    /\ \A row \in study_plans \cup error_logs \cup conversations \cup user_sessions :
          row.user_id \in PrimaryKeys(users)
    /\ \A row \in study_tasks : row.plan_id \in PrimaryKeys(study_plans)
    /\ \A row \in messages : row.conversation_id \in PrimaryKeys(conversations)

\* The rows a user owns, directly or through a study plan or conversation.
OwnedBy(id) ==
    {row \in study_plans \cup error_logs \cup conversations \cup user_sessions :
        row.user_id = id}
    \cup {row \in study_tasks :
            \E plan \in study_plans : plan.id = row.plan_id /\ plan.user_id = id}
    \cup {row \in messages :
            \E conv \in conversations :
               conv.id = row.conversation_id /\ conv.user_id = id}

\* C18: after any sequence of inserts and deletes every study_plans,
\* error_logs, conversations and user_sessions row references an existing
\* user, every study_tasks row an existing study plan and every messages
\* row an existing conversation; a step that deletes a user leaves none of
\* the rows that user owned, directly or transitively.
C18_ReferentialIntegrity ==
    [][/\ ReferencesExist'
       /\ \A row \in users \ users' :
             OwnedBy(row.id) \cap
                (study_plans' \cup study_tasks' \cup error_logs' \cup
                 conversations' \cup messages' \cup user_sessions') = {}]_vars

C18_Witness ==
    /\ users = {UserRow(2)}
    /\ autoIncrement.users = 3
    /\ Inserted = MaxRows
    /\ study_plans = {} /\ study_tasks = {}
    /\ nextPlanId = 2 /\ autoIncrement.study_tasks = 2
    /\ error_logs = {ErrorLogRow(1, 2)}

\* C19: on the chat page the reply to a message is posted only after the
\* backend accepted the user's message, no reply is posted for a user
\* message whose request failed, and in the stored history every reply
\* comes after the user message it answers.
C19_ReplyAfterAcceptedMessage ==
    /\ \A n \in 1..Len(chat.sends) :
          chat.sends[n].posted =>
             /\ chat.sends[n].stored
             /\ Is2xx(chat.sends[n].answer) /\ chat.sends[n].answer.code = 0
    /\ \A reply \in messages :
          reply.role = "assistant" =>
             \E asked \in messages :
                /\ asked.role = "user"
                /\ asked.conversation_id = reply.conversation_id
                /\ AssistantReply(asked.content) = reply.content
                /\ asked.id < reply.id

\* C21: the login page navigates to /dashboard only when the login
\* succeeded: not when the login response has a non-zero code, and not
\* when the current-user fetch returns a non-zero code or fails.
C21_NavigateOnlyOnSuccess ==
    [][(location = "/login" /\ location' = "/dashboard") =>
          mutations'.outcome = "success"]_vars

\* C23: whenever no login is in progress, localStorage holds an
\* access_token only if the auth store is authenticated with a user; a
\* login whose current-user fetch returned a non-zero code or failed
\* leaves neither token in localStorage.
C23_TokenOnlyWhenAuthenticated ==
    mutations.login = "idle" =>
       /\ localStorage.access_token # Null =>
             (authStore.isAuthenticated /\ authStore.user # Null)
       /\ mutations.outcome \in {"meCode", "meError"} => localStorage = NoTokens

\* C24: when the last response received through ApiService had status 401,
\* both tokens are gone from localStorage, the browser is at /login and the
\* caller got a rejection; when it had another error status or no status
\* it was a rejection too and localStorage is as it was before.
C24_Only401ClearsTokens ==
    LET last == mutations.received IN
    /\ last.status = 401 =>
          /\ localStorage = NoTokens
          /\ location = "/login"
          /\ last.as = "rejected"
    /\ (last.as # "none" /\ last.status \notin (200..299) \cup {401}) =>
          /\ last.as = "rejected"
          /\ localStorage = last.before

C24_Witness ==
    /\ mutations.received.status = 401
    /\ mutations.received.before.access_token = Jwt(2)
    /\ mutations.received.before.refresh_token = RefreshToken(2)
    /\ localStorage = NoTokens

\* C22: the register page goes to /login only after the registration
\* request has completed with code 0; while the request is pending, and
\* after a failed registration, the browser stays on the register page.
C22_NavigateAfterRegistered ==
    [][(location = "/register" /\ location' = "/login") =>
          /\ \A i \in 1..Len(http') : http'[i].kind # "register"
          /\ mutations'.registered = "success"]_vars

====
